---- MODULE Spec2Model ----
(***************************************************************************)
(* Model of src/src/http.cpp (MEGA SDK generic host HTTP I/O interface):   *)
(* the HttpReq receive buffer (growable string `in` or fixed array `buf`), *)
(* the request lifecycle towards the transport (post / postchunked /      *)
(* disconnect), HttpReqDL::prepare and finalize, HttpReqUL::prepare with   *)
(* the MAC ledger they write, and the outage detector of HttpIO            *)
(* (inetstatus / inetisback).                                              *)
(*                                                                         *)
(* One request object is modelled.  It is an HttpReqDL, i.e. an HttpReq    *)
(* that additionally offers prepare(); before the first prepare() buf is   *)
(* NULL and the object behaves as a plain growable HttpReq.                *)
(*                                                                         *)
(* The code never inspects the bytes it buffers, so the k-th byte the peer *)
(* delivers is given the value k: every byte of a response body is told    *)
(* apart from every other, and from the zero bytes std::string::resize     *)
(* adds and the never-written bytes of new byte[n].                        *)
(*                                                                         *)
(* A memcpy outside the array, a store through a pointer outside `in` and  *)
(* an exception thrown by std::string::resize end the run: `fault` is set  *)
(* and nothing further happens.                                            *)
(*                                                                         *)
(* Spec lets every operation happen in any order.  The Spec... variants    *)
(* below keep to the operations of one usage scenario each.                *)
(***************************************************************************)
EXTENDS Integers, Sequences, FiniteSets, TLC

(* ------------------------------ bounds -------------------------------- *)
\* longest byte string handed to put / written by the transport, and the
\* largest length asked of reserveput
MaxLen == 2
\* cap on in.size()
MaxIn == 4
\* cap on the number of payload bytes the peer delivers to the request
MaxStream == 4
\* largest single purge(n) argument
MaxPurge == 2
\* cap on the sum of the purge(n) arguments
MaxPurged == 4
\* chunk sizes npos - pos used with prepare are 1..MaxChunk
MaxChunk == 2
\* chunk start offsets pos used with prepare are 0..MaxPos
MaxPos == 1
\* cap on the number of calls the transport log records
MaxCalls == 4
\* largest value passed to setcontentlength
MaxContentLength == 1
\* width, in bits, of the unsigned / size_t arithmetic of the model
WordBits == 12
\* number of times the clock advances
MaxTicks == 4
\* cap on the number of calls the cipher's log records
MaxCrypts == 2
\* upload chunks start at offsets 0..MaxULPos
MaxULPos == 2

(* ------------------------- program constants -------------------------- *)
\* SymmCipher::BLOCKSIZE
BLOCKSIZE == 16

WordMod == 2 ^ WordBits

\* HttpIO::inetstatus: an outage longer than this many deciseconds sets
\* inetback when it ends
Threshold == 600

\* the value std::string::resize fills with; payload bytes are 1, 2, ...
ZeroByte == 0
\* content of a byte of new byte[n] that was never written
Uninit == -1

VARIABLES
    buf,            \* [null: BOOLEAN, mem: Seq]  fixed buffer, NULL or array
    buflen,         \* m_off_t
    bufpos,         \* m_off_t
    in,             \* std::string
    inpurge,        \* size_t
    contentlength,  \* m_off_t
    httpio,         \* TRUE iff httpio != NULL
    chunked,        \* bool
    dlpos,          \* HttpReqDL::dlpos
    calls,          \* calls received by the transport for this request
    fault,          \* an out-of-bounds access or a thrown exception occurred
    phase,          \* download path position: idle / prepared / receiving
    wire,           \* number of payload bytes the peer has delivered
    purged,         \* sum of the purge(n) arguments
    last,           \* the most recent call, its arguments and its result
    noinetds,       \* HttpIO::noinetds
    inetback,       \* HttpIO::inetback
    ds,             \* Waiter::ds, the clock in deciseconds
    ticks,          \* number of times the clock has advanced
    reported,       \* the status last passed to inetstatus: none / up / down
    since,          \* [never: BOOLEAN, t: Nat]  clock at the first down report
                    \* of the outage in progress
    edge,           \* an up report has ended an outage longer than the
                    \* threshold since inetisback last returned true
    macs,           \* the chunkmac_map: chunk start offset -> tag
    crypts,         \* the calls SymmCipher::ctr_crypt has received
    out,            \* HttpReqUL: the outbound buffer *out
    ul              \* HttpReqUL: what was staged and what prepare was given

\* the HttpIO fields, the clock and the history kept about them
iovars == <<noinetds, inetback, ds, ticks, reported, since, edge>>

\* the MAC ledger, the cipher's call log and the upload request
cryptvars == <<macs, crypts, out, ul>>

\* the fields of the request and the history kept about them, last excepted
reqvars == <<buf, buflen, bufpos, in, inpurge, contentlength, httpio, chunked,
             dlpos, calls, fault, phase, wire, purged>>

vars == <<buf, buflen, bufpos, in, inpurge, contentlength, httpio, chunked,
          dlpos, calls, fault, phase, wire, purged, last,
          iovars, cryptvars>>

(* ------------------------------ helpers ------------------------------- *)
Min(a, b) == IF a < b THEN a ELSE b

NullBuf == [null |-> TRUE, mem |-> <<>>]

\* the record kept in `last`
Call(op, data, n, flag, ret, off) ==
    [op |-> op, data |-> data, n |-> n, flag |-> flag, ret |-> ret, off |-> off]

\* conversion of a (possibly negative) difference to unsigned
ToUnsigned(x) == x % WordMod

\* std::string::erase(0, n): n is clamped to the length of the string
Erase(s, n) == SubSeq(s, Min(n, Len(s)) + 1, Len(s))

\* std::string::resize(n): truncates, or pads with zero bytes
Resize(s, n) ==
    IF n <= Len(s) THEN SubSeq(s, 1, n)
    ELSE s \o [i \in 1..(n - Len(s)) |-> ZeroByte]

\* memcpy(dst + off, d, Len(d)) inside an array
MemCopy(mem, off, d) ==
    [i \in 1..Len(mem) |->
        IF i > off /\ i <= off + Len(d) THEN d[i - off] ELSE mem[i]]

\* (size + BLOCKSIZE - 1) & -BLOCKSIZE
RoundUpToBlock(size) == ((size + BLOCKSIZE - 1) \div BLOCKSIZE) * BLOCKSIZE

\* new byte[n]
NewBytes(n) == [i \in 1..n |-> Uninit]

\* the next n bytes of the response body: the k-th byte the peer delivers
\* has the value k, so every byte of the body is told apart from the others
Payload(n) == [i \in 1..n |-> wire + i]

\* the whole body delivered so far
Delivered == [i \in 1..wire |-> i]

(* --------------------------- pure accessors --------------------------- *)
\* HttpReq::data(): offset of the returned pointer from in.data()
data == inpurge

\* HttpReq::size(): size_t subtraction
size == ToUnsigned(Len(in) - inpurge)

\* HttpReq::transferred()
transferred == IF ~buf.null THEN bufpos ELSE Len(in)

\* the bytes (data(), size()) denotes, when that range lies inside `in`
ReadableView == SubSeq(in, data + 1, data + size)

(* ------------------------------- Init --------------------------------- *)
\* no outage in progress
Never == [never |-> TRUE, t |-> 0]

\* an upload request with nothing staged and not prepared
NoUpload == [staged |-> FALSE, prepared |-> FALSE, plain |-> <<>>,
             pos |-> 0, ctriv |-> 0, tag |-> 0]

\* HttpIO::HttpIO, with the clock at its initial value and an empty ledger
InitIO ==
    /\ noinetds = 0
    /\ inetback = FALSE
    /\ ds = 0
    /\ ticks = 0
    /\ reported = "none"
    /\ since = Never
    /\ edge = FALSE
    /\ macs = <<>>
    /\ crypts = <<>>
    /\ out = <<>>
    /\ ul = NoUpload

\* HttpReq::HttpReq
Init ==
    /\ InitIO
    /\ buf = NullBuf
    /\ buflen = 0
    /\ bufpos = 0
    /\ in = <<>>
    /\ inpurge = 0
    /\ contentlength = 0
    /\ httpio = FALSE
    /\ chunked = FALSE
    /\ dlpos = 0
    /\ calls = <<>>
    /\ fault = FALSE
    /\ phase = "idle"
    /\ wire = 0
    /\ purged = 0
    /\ last = Call("new", <<>>, 0, FALSE, 0, 0)

(* ------------------------- transport collaborator --------------------- *)
\* httpio->cancel(this), httpio->post(this, ...), httpio->sendchunked(this):
\* the transport is outside the repository's core; the model records the
\* call it receives
Transport(log, call) == Append(log, call)

(* ------------------------------ lifecycle ----------------------------- *)
\* HttpReq::post without the defensive cancel
PostCallsNoCancel == Transport(calls, "post")

\* the transport calls HttpReq::post makes
PostCalls ==
    IF httpio
    THEN Transport(Transport(calls, "cancel"), "post")
    ELSE Transport(calls, "post")

\* the body of HttpReq::post, shared with postchunked
PostBody ==
    /\ calls' = PostCalls
    /\ httpio' = TRUE
    /\ bufpos' = 0
    /\ inpurge' = 0
    /\ contentlength' = -1
    /\ phase' = IF buf.null THEN phase ELSE "receiving"
    /\ UNCHANGED <<buf, buflen, in, dlpos, fault, wire, purged>>

\* HttpReq::post
Post ==
    /\ ~fault
    /\ UNCHANGED <<iovars, cryptvars>>
    /\ Len(PostCalls) <= MaxCalls
    /\ PostBody
    /\ chunked' = chunked
    /\ last' = Call("post", <<>>, 0, httpio, 0, 0)

\* a postchunked that forgets to set chunked
PostChunkedForgetful ==
    /\ ~fault
    /\ UNCHANGED <<iovars, cryptvars>>
    /\ Len(PostCalls) <= MaxCalls
    /\ chunked' = chunked
    /\ PostBody
    /\ last' = Call("postchunked", <<>>, 0, chunked, 0, 0)

\* HttpReq::postchunked
PostChunked ==
    /\ ~fault
    /\ UNCHANGED <<iovars, cryptvars>>
    /\ Len(IF chunked THEN Append(calls, "sendchunked") ELSE PostCalls) <= MaxCalls
    /\ IF ~chunked
       THEN /\ chunked' = TRUE
            /\ PostBody
       ELSE /\ calls' = IF httpio THEN Transport(calls, "sendchunked") ELSE calls
            /\ UNCHANGED <<buf, buflen, bufpos, in, inpurge, contentlength,
                           httpio, chunked, dlpos, fault, phase, wire, purged>>
    /\ last' = Call("postchunked", <<>>, 0, chunked, 0, 0)

\* a disconnect that cancels whether or not the request is associated
DisconnectCallsUnguarded == Transport(calls, "cancel")

\* the transport calls HttpReq::disconnect makes
DisconnectCalls == IF httpio THEN Transport(calls, "cancel") ELSE calls

\* a disconnect that also rewinds the buffer
DisconnectRewinding ==
    /\ ~fault
    /\ UNCHANGED <<iovars, cryptvars>>
    /\ Len(DisconnectCalls) <= MaxCalls
    /\ calls' = DisconnectCalls
    /\ httpio' = FALSE
    /\ chunked' = FALSE
    /\ bufpos' = 0
    /\ inpurge' = 0
    /\ last' = Call("disconnect", <<>>, 0, httpio, 0, 0)
    /\ UNCHANGED <<buf, buflen, in, contentlength, dlpos,
                   fault, phase, wire, purged>>

\* HttpReq::disconnect
Disconnect ==
    /\ ~fault
    /\ UNCHANGED <<iovars, cryptvars>>
    /\ Len(DisconnectCalls) <= MaxCalls
    /\ calls' = DisconnectCalls
    /\ httpio' = FALSE
    /\ chunked' = FALSE
    /\ last' = Call("disconnect", <<>>, 0, httpio, 0, 0)
    /\ UNCHANGED <<buf, buflen, bufpos, in, inpurge, contentlength, dlpos,
                   fault, phase, wire, purged>>

(* ------------------------------- buffer ------------------------------- *)
\* a put that does not clamp to the capacity
PutFixedLenUnclamped(len) == len

\* HttpReq::put, fixed buffer branch: the length memcpy is called with
PutFixedLen(len) ==
    IF bufpos + len > buflen THEN ToUnsigned(buflen - bufpos) ELSE len

\* a put that erases the purged prefix but keeps the purge offset
PutInPurgeKept(purge) == inpurge

\* HttpReq::put, growable branch: inpurge after the call
PutInPurge(purge) == IF inpurge # 0 /\ purge THEN 0 ELSE inpurge

\* HttpReq::put, growable branch: in after the call
PutIn(d, purge) ==
    IF inpurge # 0 /\ purge THEN Erase(in, inpurge) \o d ELSE in \o d

\* HttpReq::put(data, len, purge) with data = d, len = Len(d)
Put(d, purge) ==
    /\ ~fault
    /\ UNCHANGED <<iovars, cryptvars>>
    /\ wire' = wire + Len(d)
    /\ IF ~buf.null
       THEN LET len == PutFixedLen(Len(d))
            IN /\ IF len <= Len(d) /\ bufpos >= 0 /\ bufpos + len <= Len(buf.mem)
                  THEN /\ buf' = [buf EXCEPT !.mem = MemCopy(buf.mem, bufpos, SubSeq(d, 1, len))]
                       /\ fault' = FALSE
                  ELSE \* memcpy past the end of data and of the array
                       /\ buf' = buf
                       /\ fault' = TRUE
               /\ bufpos' = bufpos + len
               /\ last' = Call("put", d, Len(d), purge, len, bufpos)
               /\ UNCHANGED <<in, inpurge>>
       ELSE /\ Len(in) + Len(d) <= MaxIn
            /\ in' = PutIn(d, purge)
            /\ inpurge' = PutInPurge(purge)
            /\ bufpos' = bufpos + Len(d)
            /\ last' = Call("put", d, Len(d), purge, Len(d), Len(in') - Len(d))
            /\ UNCHANGED <<buf, fault>>
    /\ UNCHANGED <<buflen, contentlength, httpio, chunked, dlpos, calls, phase, purged>>

\* HttpReq::purge
Purge(numbytes) ==
    /\ ~fault
    /\ UNCHANGED <<iovars, cryptvars>>
    /\ purged + numbytes <= MaxPurged
    /\ inpurge' = inpurge + numbytes
    /\ purged' = purged + numbytes
    /\ last' = Call("purge", <<>>, numbytes, numbytes <= size, 0, 0)
    /\ UNCHANGED <<buf, buflen, bufpos, in, contentlength, httpio, chunked,
                   dlpos, calls, fault, phase, wire>>

\* HttpReq::setcontentlength (in.reserve changes no observable state)
SetContentLength(len) ==
    /\ ~fault
    /\ UNCHANGED <<iovars, cryptvars>>
    /\ contentlength' = len
    /\ last' = Call("setcontentlength", <<>>, len, FALSE, 0, 0)
    /\ UNCHANGED <<buf, buflen, bufpos, in, inpurge, httpio, chunked, dlpos,
                   calls, fault, phase, wire, purged>>

\* HttpReq::reserveput(&len): last.ret is the adjusted *len, last.off the
\* offset of the returned pointer from buf respectively in.data()
ReservePut(len) ==
    /\ ~fault
    /\ UNCHANGED <<iovars, cryptvars>>
    /\ IF ~buf.null
       THEN /\ last' = Call("reserveput", <<>>, len, FALSE,
                            IF bufpos + len > buflen
                            THEN ToUnsigned(buflen - bufpos) ELSE len,
                            bufpos)
            /\ UNCHANGED <<in, inpurge, bufpos, fault>>
       ELSE LET in1 == IF inpurge # 0 THEN Erase(in, inpurge) ELSE in
                pos1 == IF inpurge # 0 THEN bufpos - inpurge ELSE bufpos
            IN /\ pos1 + len <= MaxIn
               /\ inpurge' = 0
               /\ bufpos' = pos1
               /\ IF pos1 + len < 0
                  THEN \* in.resize((size_t) negative) throws std::length_error
                       /\ in' = in1
                       /\ fault' = TRUE
                       /\ last' = Call("reserveput", <<>>, len, FALSE, 0, pos1)
                  ELSE /\ in' = IF pos1 + len > Len(in1)
                                THEN Resize(in1, pos1 + len) ELSE in1
                       /\ fault' = FALSE
                       /\ last' = Call("reserveput", <<>>, len, FALSE,
                                       ToUnsigned(Len(in') - pos1), pos1)
    /\ UNCHANGED <<buf, buflen, contentlength, httpio, chunked, dlpos, calls,
                   phase, wire, purged>>

\* the transport stores w through the pointer reserveput returned and
\* advances bufpos by Len(w), at most the adjusted length
Advance(w) ==
    /\ ~fault
    /\ UNCHANGED <<iovars, cryptvars>>
    /\ last.op = "reserveput"
    /\ Len(w) <= last.ret
    /\ wire + Len(w) <= MaxStream
    /\ wire' = wire + Len(w)
    /\ bufpos + Len(w) <= MaxChunk + MaxLen
    /\ IF ~buf.null
       THEN /\ IF last.off + Len(w) <= Len(buf.mem)
               THEN /\ buf' = [buf EXCEPT !.mem = MemCopy(buf.mem, last.off, w)]
                    /\ fault' = FALSE
               ELSE /\ buf' = buf
                    /\ fault' = TRUE
            /\ UNCHANGED in
       ELSE /\ IF last.off >= 0 /\ last.off + Len(w) <= Len(in)
               THEN /\ in' = MemCopy(in, last.off, w)
                    /\ fault' = FALSE
               ELSE /\ in' = in
                    /\ fault' = (Len(w) > 0)
            /\ UNCHANGED buf
    /\ bufpos' = bufpos + Len(w)
    /\ last' = Call("advance", w, Len(w), FALSE, 0, last.off)
    /\ UNCHANGED <<buflen, inpurge, contentlength, httpio, chunked, dlpos,
                   calls, phase, purged>>

\* a prepare whose clamp limit is the rounded-up allocation size
PrepareRoundedCapacity(pos, npos) ==
    /\ ~fault
    /\ UNCHANGED <<iovars, cryptvars>>
    /\ dlpos' = pos
    /\ IF buf.null \/ buflen # RoundUpToBlock(npos - pos)
       THEN /\ buf' = [null |-> FALSE, mem |-> NewBytes(RoundUpToBlock(npos - pos))]
            /\ buflen' = RoundUpToBlock(npos - pos)
       ELSE UNCHANGED <<buf, buflen>>
    /\ phase' = "prepared"
    /\ last' = Call("prepare", <<>>, npos - pos, buf.null \/ buflen # npos - pos, 0, pos)
    /\ UNCHANGED <<bufpos, in, inpurge, contentlength, httpio, chunked, calls,
                   fault, wire, purged>>

(* ----------------------------- HttpReqDL ------------------------------ *)
\* HttpReqDL::prepare(tempurl, key, macs, ctriv, pos, npos); the URL that
\* setreq stores is not modelled
Prepare(pos, npos) ==
    /\ ~fault
    /\ UNCHANGED <<iovars, cryptvars>>
    /\ dlpos' = pos
    /\ IF buf.null \/ buflen # npos - pos
       THEN /\ buf' = [null |-> FALSE, mem |-> NewBytes(RoundUpToBlock(npos - pos))]
            /\ buflen' = npos - pos
       ELSE UNCHANGED <<buf, buflen>>
    /\ phase' = "prepared"
    /\ last' = Call("prepare", <<>>, npos - pos, buf.null \/ buflen # npos - pos, 0, pos)
    /\ UNCHANGED <<bufpos, in, inpurge, contentlength, httpio, chunked, calls,
                   fault, wire, purged>>

(* -------------------- SymmCipher and chunkmac_map --------------------- *)
\* number of values of a byte
ByteMod == 2 ^ 8

\* the ctriv values used
Seeds == {0, 7}

\* byte mac[SymmCipher::BLOCKSIZE] = { 0 }
ZeroMac == 0

\* the keystream byte of the counter-mode transform for seed ctriv at byte
\* offset off
KeyStream(ctriv, off) == (ctriv * 3 + off * 5 + 1) % ByteMod

\* one byte encrypted; a never-written byte stays indeterminate
EncByte(b, k) == IF b = Uninit THEN Uninit ELSE (b + k) % ByteMod

\* one byte decrypted: the inverse of EncByte
DecByte(b, k) == IF b = Uninit THEN Uninit ELSE (b + ByteMod - k) % ByteMod

\* the tag accumulated over the plaintext p, starting from m
RECURSIVE MacFold(_, _)
MacFold(m, p) ==
    IF p = <<>> THEN m
    ELSE MacFold((m * 31 + Head(p) + 1) % WordMod, Tail(p))

\* SymmCipher::ctr_crypt(data, len, pos, ctriv, mac, encrypt): transforms
\* exactly the first len bytes of d in place and returns the tag of the
\* plaintext; the tag of indeterminate bytes is indeterminate
CtrCrypt(d, len, pos, ctriv, mac, encrypt) ==
    LET plain == [i \in 1..len |->
                    IF encrypt THEN d[i]
                    ELSE DecByte(d[i], KeyStream(ctriv, pos + i - 1))]
    IN [data |-> [i \in 1..Len(d) |->
                    IF i > len THEN d[i]
                    ELSE IF encrypt
                         THEN EncByte(d[i], KeyStream(ctriv, pos + i - 1))
                         ELSE plain[i]],
        mac |-> IF \E i \in 1..len : plain[i] = Uninit THEN Uninit
                ELSE MacFold((mac + ctriv) % WordMod, plain)]

\* the record of one call of ctr_crypt and the tag it produced
CryptCall(len, pos, ctriv, encrypt, tag) ==
    [len |-> len, pos |-> pos, ctriv |-> ctriv, encrypt |-> encrypt,
     tag |-> tag]

\* a ledger write that drops every other entry
LedgerStoreAlone(m, k, t) == [x \in {k} |-> t]

\* memcpy((*macs)[k].mac, t, sizeof t): the entry at key k is created if
\* absent and overwritten; every other entry stays
LedgerStore(m, k, t) ==
    [x \in DOMAIN m \cup {k} |-> IF x = k THEN t ELSE m[x]]

\* a finalize that transforms the whole chunk whatever was received
FinalizeLenWholeChunk == buflen

\* the length HttpReqDL::finalize passes to ctr_crypt
FinalizeLen == bufpos

\* a finalize that takes the chunk to start at the offset after dlpos
FinalizePosShifted == dlpos + 1

\* the byte offset HttpReqDL::finalize passes to ctr_crypt
FinalizePos == dlpos

\* HttpReqDL::finalize(key, macs, ctriv); last.data records the bytes
\* handed to the transform
Finalize(ctriv) ==
    /\ ~fault
    /\ Len(crypts) < MaxCrypts
    /\ LET len == FinalizeLen
       IN /\ IF len >= 0 /\ len <= Len(buf.mem)
             THEN LET r == CtrCrypt(buf.mem, len, FinalizePos, ctriv, ZeroMac, FALSE)
                  IN /\ buf' = [buf EXCEPT !.mem = r.data]
                     /\ macs' = LedgerStore(macs, dlpos, r.mac)
                     /\ crypts' = Append(crypts,
                                         CryptCall(len, FinalizePos, ctriv, FALSE,
                                                   r.mac))
                     /\ fault' = FALSE
                     /\ last' = Call("finalize", SubSeq(buf.mem, 1, len), ctriv,
                                     FALSE, len, dlpos)
             ELSE \* the transform runs past the end of the array
                  /\ fault' = TRUE
                  /\ last' = Call("finalize", <<>>, ctriv, FALSE, len, dlpos)
                  /\ UNCHANGED <<buf, macs, crypts>>
    /\ UNCHANGED <<buflen, bufpos, in, inpurge, contentlength, httpio, chunked,
                   dlpos, calls, phase, wire, purged>>
    /\ UNCHANGED <<iovars, out, ul>>

(* ------------------------------ HttpReqUL ----------------------------- *)
\* the byte values of the plaintexts staged for upload
PlainBytes == {0, 1}

\* n zero bytes
Zeros(n) == [i \in 1..n |-> ZeroByte]

\* the caller stages the plaintext p in *out, padded with zero bytes to a
\* whole number of cipher blocks
Stage(p) ==
    /\ ~fault
    /\ ~ul.staged
    /\ out' = p \o Zeros(RoundUpToBlock(Len(p)) - Len(p))
    /\ ul' = [ul EXCEPT !.staged = TRUE, !.plain = p]
    /\ last' = Call("stage", p, Len(p), FALSE, 0, 0)
    /\ UNCHANGED <<reqvars, iovars, macs, crypts>>

\* an upload prepare that leaves the padding in *out
ULPrepareOutPadded(d, n) == d

\* out->resize(size) applied to the transformed bytes d
ULPrepareOut(d, n) == Resize(d, n)

\* HttpReqUL::prepare(tempurl, key, macs, ctriv, pos, npos); the URL that
\* setreq stores is not modelled
ULPrepare(ctriv, pos, npos) ==
    /\ ~fault
    /\ ul.staged /\ ~ul.prepared
    /\ Len(crypts) < MaxCrypts
    /\ npos - pos <= Len(out)
    /\ LET r == CtrCrypt(out, npos - pos, pos, ctriv, ZeroMac, TRUE)
       IN /\ out' = ULPrepareOut(r.data, npos - pos)
          /\ macs' = LedgerStore(macs, pos, r.mac)
          /\ crypts' = Append(crypts,
                              CryptCall(npos - pos, pos, ctriv, TRUE, r.mac))
          /\ ul' = [ul EXCEPT !.prepared = TRUE, !.pos = pos,
                              !.ctriv = ctriv, !.tag = r.mac]
    /\ last' = Call("ulprepare", out, npos - pos, TRUE, 0, pos)
    /\ UNCHANGED <<reqvars, iovars>>

(* ------------------------------- HttpIO ------------------------------- *)
\* the amounts the clock advances by between two calls
TickSteps == {1, 10, 590}

\* Waiter::ds advances
Tick(d) ==
    /\ ticks < MaxTicks
    /\ ticks' = ticks + 1
    /\ ds' = ds + d
    /\ last' = Call("tick", <<>>, d, FALSE, 0, 0)
    /\ UNCHANGED <<noinetds, inetback, reported, since, edge>>
    /\ UNCHANGED <<reqvars, cryptvars>>

\* the value inetstatus(true) leaves in inetback
InetStatusUp ==
    IF noinetds # 0 /\ ds - noinetds > Threshold THEN TRUE ELSE inetback

\* the value inetstatus(false) leaves in noinetds
InetStatusDown == IF noinetds = 0 THEN ds ELSE noinetds

\* HttpIO::inetstatus(up)
InetStatus(up) ==
    /\ IF up
       THEN /\ inetback' = InetStatusUp
            /\ noinetds' = 0
       ELSE /\ noinetds' = InetStatusDown
            /\ inetback' = inetback
    /\ reported' = IF up THEN "up" ELSE "down"
    /\ since' = IF up THEN Never
                ELSE IF since.never THEN [never |-> FALSE, t |-> ds] ELSE since
    /\ edge' = IF up /\ ~since.never /\ ds - since.t > Threshold
               THEN TRUE ELSE edge
    /\ last' = Call("inetstatus", <<>>, ds, up, noinetds, 0)
    /\ UNCHANGED <<ds, ticks, reqvars, cryptvars>>

\* an inetisback that reports the flag without clearing it
InetIsBackLevel ==
    /\ edge' = IF inetback THEN FALSE ELSE edge
    /\ last' = Call("inetisback", <<>>, 0, inetback, 0, 0)
    /\ UNCHANGED <<noinetds, inetback, ds, ticks, reported, since, reqvars,
                   cryptvars>>

\* HttpIO::inetisback; its return value is recorded in last.flag
InetIsBack ==
    /\ inetback' = FALSE
    /\ edge' = IF inetback THEN FALSE ELSE edge
    /\ last' = Call("inetisback", <<>>, 0, inetback, 0, 0)
    /\ UNCHANGED <<noinetds, ds, ticks, reported, since, reqvars, cryptvars>>

(* --------------------------- specifications --------------------------- *)
PutAny ==
    \E n \in 0..MaxLen, purge \in BOOLEAN :
        wire + n <= MaxStream /\ Put(Payload(n), purge)
PurgeAny == \E n \in 0..MaxPurge : Purge(n)
\* purge(n) as a consumer calls it: n bytes of the unconsumed data
PurgeWithin == \E n \in 0..MaxPurge : inpurge + n <= Len(in) /\ Purge(n)
SetContentLengthAny == \E len \in 0..MaxContentLength : SetContentLength(len)
ReservePutAny == \E len \in 0..MaxLen : ReservePut(len)
AdvanceAny == \E n \in 0..MaxLen : Advance(Payload(n))
FinalizeAny == \E ctriv \in Seeds : Finalize(ctriv)
\* plaintexts of 1..MaxChunk bytes, every byte different from its neighbours
StageAny ==
    \E n \in 1..MaxChunk, b \in PlainBytes :
        Stage([i \in 1..n |-> (b + 2 * i) % ByteMod])
\* the upload chunk is as long as the plaintext staged for it
ULPrepareAny ==
    \E ctriv \in Seeds, pos \in 0..MaxULPos :
        ULPrepare(ctriv, pos, pos + Len(ul.plain))
\* the peer returns the next bytes of the uploaded chunk
PutCipher ==
    \E n \in 1..MaxLen :
        /\ ul.prepared /\ ~buf.null
        /\ bufpos >= 0 /\ bufpos + n <= Len(out)
        /\ wire + n <= MaxStream
        /\ Put(SubSeq(out, bufpos + 1, bufpos + n), FALSE)
\* the peer sends the next bytes of the response body
PutBody == \E n \in 1..MaxLen : wire + n <= MaxStream /\ Put(Payload(n), FALSE)
\* one cipher block of zero bytes arrives for the chunk 0..BLOCKSIZE
PrepareBlock == Prepare(0, BLOCKSIZE)
PutZeros ==
    /\ ~buf.null /\ buflen = BLOCKSIZE /\ bufpos = 0 /\ wire = 0
    /\ Put(Zeros(BLOCKSIZE), FALSE)
TickAny == \E d \in TickSteps : Tick(d)
InetStatusAny == \E up \in BOOLEAN : InetStatus(up)
PrepareAny == \E pos \in 0..MaxPos, n \in 1..MaxChunk : Prepare(pos, pos + n)

\* every operation, in any order
Next ==
    \/ Post
    \/ PostChunked
    \/ Disconnect
    \/ PutAny
    \/ PurgeAny
    \/ SetContentLengthAny
    \/ ReservePutAny
    \/ AdvanceAny
    \/ PrepareAny
    \/ FinalizeAny
    \/ StageAny
    \/ ULPrepareAny
    \/ TickAny
    \/ InetStatusAny
    \/ InetIsBack

Spec == Init /\ [][Next]_vars

\* a growable request whose consumer may purge any amount
NextPurge ==
    \/ PutAny
    \/ PurgeAny
    \/ ReservePutAny
    \/ AdvanceAny

SpecPurge == Init /\ [][NextPurge]_vars

\* a growable request fed by put alone, whose consumer purges only data it
\* was given
NextPutPurge ==
    \/ PutAny
    \/ PurgeWithin

SpecPutPurge == Init /\ [][NextPutPurge]_vars

\* the same, up to the first reserveput
NextPutReserve ==
    \/ (last.op # "reserveput" /\ PutAny)
    \/ (last.op # "reserveput" /\ PurgeWithin)
    \/ (last.op # "reserveput" /\ ReservePutAny)

SpecPutReserve == Init /\ [][NextPutReserve]_vars

\* a download request: the buffer is used only once prepared
NextDL ==
    \/ PrepareAny
    \/ Post
    \/ (~buf.null /\ PutAny)
    \/ (~buf.null /\ ReservePutAny)
    \/ (~buf.null /\ AdvanceAny)

SpecDL == Init /\ [][NextDL]_vars

\* the request lifecycle, with data arriving through put; a download
\* request is prepared before it receives anything
NextLife ==
    \/ Post
    \/ PostChunked
    \/ Disconnect
    \/ (in = <<>> /\ wire = 0 /\ PrepareAny)
    \/ PutAny
    \/ PurgeWithin

SpecLife == Init /\ [][NextLife]_vars

(* ------------------------------- claims ------------------------------- *)

\* the download chunk has been through finalize
Finalized == \E i \in 1..Len(crypts) : ~crypts[i].encrypt

\* chunk transfer: a download chunk is prepared, possibly more than once,
\* posted, received and finalized once, at any point of its reception; meanwhile
\* an upload chunk is staged and prepared; both record their tags in the
\* same ledger
NextCodec ==
    \/ (phase # "receiving" /\ PrepareAny)
    \/ (phase = "idle" /\ PrepareBlock)
    \/ (phase = "prepared" /\ Post)
    \/ (phase = "receiving" /\ PutBody)
    \/ (phase = "receiving" /\ PutCipher)
    \/ (phase = "receiving" /\ PutZeros)
    \/ (phase = "receiving" /\ ~Finalized /\ FinalizeAny)
    \/ StageAny
    \/ ULPrepareAny

SpecCodec == Init /\ [][NextCodec]_vars

\* the outage detector: status reports and reads as the clock advances
NextInet ==
    \/ TickAny
    \/ InetStatusAny
    \/ InetIsBack

SpecInet == Init /\ [][NextInet]_vars

\* C1: for a growable buffer (buf == NULL), inpurge <= bufpos <= in.size()
\* holds in every state reached by put (purge true or false) and by
\* purge(n) with n not exceeding the unconsumed size.
C1_GrowableCursorOrder ==
    buf.null => (inpurge <= bufpos /\ bufpos <= Len(in))

\* C2: for a request with a fixed buffer, bufpos <= buflen holds in every
\* state reached by prepare (any chunk sizes, also re-preparing for a
\* smaller chunk), post, put and reserveput.
C2_FixedCursorWithinCapacity ==
    ~buf.null => bufpos <= buflen

\* C3: for a growable buffer fed by put (purge true or false) and purged
\* by purge(k_1)..purge(k_n) within the bytes ingested, the readable view
\* (data(), size()) is the concatenation of all bytes passed to put with
\* the first k_1 + ... + k_n bytes removed.
C3_ViewIsStreamMinusPurged ==
    /\ size = wire - purged
    /\ data + size <= Len(in)
    /\ ReadableView = SubSeq(Delivered, purged + 1, wire)

\* C3 witness: a put with purge = true has physically discarded a purged
\* prefix and appended further bytes, and unconsumed bytes of both sides of
\* the purge boundary remain.
C3_Witness ==
    /\ last.op = "put" /\ last.flag /\ last.n > 0
    /\ purged > 0
    /\ Len(in) < wire
    /\ Len(ReadableView) > last.n

\* C4: in fixed mode, once the chunk is prepared and posted, put(data, len)
\* copies exactly min(len, buflen - bufpos) bytes at offset bufpos and
\* advances bufpos by that amount; every other byte of the array, whose
\* length is the chunk size rounded up to the block size, is left alone,
\* and dropping the excess raises no error.
C4_FixedPutClamps ==
    [][(last'.op = "put" /\ ~buf.null /\ phase = "receiving") =>
        LET k == Min(last'.n, buflen - bufpos)
        IN /\ k >= 0
           /\ last'.ret = k
           /\ bufpos' = bufpos + k
           /\ bufpos' <= RoundUpToBlock(buflen)
           /\ Len(buf'.mem) = RoundUpToBlock(buflen)
           /\ \A i \in 1..Len(buf'.mem) :
                 buf'.mem[i] = IF i > bufpos /\ i <= bufpos + k
                               THEN last'.data[i - bufpos]
                               ELSE buf.mem[i]
           /\ ~fault']_vars

\* C4 witness: a put on a prepared and posted chunk was truncated: some of
\* its bytes were copied, the rest dropped, and the buffer is full.
C4_Witness ==
    /\ last.op = "put" /\ ~buf.null /\ phase = "receiving"
    /\ 0 < last.ret /\ last.ret < last.n
    /\ bufpos = buflen
    /\ ~fault

\* C5: for a growable buffer, transferred() is the number of bytes
\* ingested so far, whatever was purged in between.
C5_TransferredCountsIngested ==
    buf.null => transferred = wire

\* C6: after purge(n), whatever n, the purge offset does not exceed the
\* stored length and size() has not wrapped.
C6_PurgeClamped ==
    last.op = "purge" => (inpurge <= Len(in) /\ size <= Len(in))

\* C7: after reserveput(&len) the adjusted length is at most the requested
\* one; in growable mode inpurge is 0, the window starts right after the
\* last ingested byte and the unconsumed bytes lie, in order, directly
\* before it; in fixed mode the window ends within buflen.
C7_ReservePutWindow ==
    last.op = "reserveput" =>
        /\ last.ret <= last.n
        /\ buf.null =>
              /\ inpurge = 0
              /\ last.off = wire - purged
              /\ SubSeq(in, 1, last.off) = SubSeq(Delivered, purged + 1, wire)
        /\ ~buf.null => bufpos + last.ret <= buflen

\* C8: the transport never receives two post calls for the request without
\* a cancel call in between.
C8_NoDoublePost ==
    \A i, j \in 1..Len(calls) :
        (i < j /\ calls[i] = "post" /\ calls[j] = "post") =>
            \E k \in (i + 1)..(j - 1) : calls[k] = "cancel"

\* C8 witness: post was called on a request still associated with the
\* transport, and the transport has seen both posts.
C8_Witness ==
    /\ last.op = "post" /\ last.flag
    /\ Len(calls) >= 3
    /\ calls[Len(calls)] = "post"
    /\ \E i \in 1..(Len(calls) - 1) : calls[i] = "post"

\* C9: right after a re-post (post() on a request that is still associated
\* with the transport) the write cursor and the purge offset are 0,
\* contentlength is -1, size() is 0 and transferred() is 0.
C9_PostStartsClean ==
    (last.op = "post" /\ last.flag) =>
        /\ bufpos = 0
        /\ inpurge = 0
        /\ contentlength = -1
        /\ size = 0
        /\ transferred = 0

\* C10, as claimed: after disconnect() the purge offset and the write
\* cursor are both 0.
C10_DisconnectResets ==
    last.op = "disconnect" => (inpurge = 0 /\ bufpos = 0)

\* C10, amended: disconnect() leaves the purge offset, the write cursor,
\* the received bytes and the fixed buffer allocation as they were; the
\* purge offset and the write cursor are reset to 0 by the next post(),
\* which keeps the allocation too.
C10_DisconnectKeepsBuffer ==
    [][/\ last'.op = "disconnect" =>
            /\ bufpos' = bufpos
            /\ inpurge' = inpurge
            /\ in' = in
            /\ buf' = buf
            /\ buflen' = buflen
       /\ last'.op = "post" =>
            /\ bufpos' = 0
            /\ inpurge' = 0
            /\ buf' = buf
            /\ buflen' = buflen]_vars

\* C10 witness: a request that had received and partly purged data was
\* cancelled by disconnect().
C10_Witness ==
    /\ last.op = "disconnect" /\ last.flag
    /\ bufpos > 0
    /\ inpurge > 0
    /\ calls[Len(calls)] = "cancel"

\* the number of calls c in a transport log
Count(log, c) == Cardinality({i \in 1..Len(log) : log[i] = c})

\* C11: disconnect() leaves httpio = NULL and chunked = false; on a request
\* that was never posted it makes no transport call; the first disconnect
\* after a post makes one cancel call, and every further disconnect makes
\* none and changes nothing.
C11_DisconnectIdempotent ==
    [][last'.op = "disconnect" =>
        /\ ~httpio' /\ ~chunked'
        /\ Count(calls, "post") = 0 => calls' = <<>>
        /\ Count(calls', "cancel") <= Count(calls', "post")
        /\ last.op = "disconnect" =>
              /\ calls' = calls
              /\ httpio' = httpio
              /\ chunked' = chunked
        /\ (last.op # "disconnect" /\ httpio) =>
              /\ calls' = Append(calls, "cancel")]_vars

\* C11 witness: disconnect was called a second time in a row on a request
\* that had been posted; the transport has seen one post and one cancel.
C11_Witness ==
    /\ last.op = "disconnect" /\ ~last.flag
    /\ calls = <<"post", "cancel">>
    /\ ~httpio /\ ~chunked

\* C20: the first postchunked() sets chunked and issues exactly one
\* transport post; a later postchunked() on a connected request issues one
\* sendchunked and no post; after disconnect() the next postchunked() posts
\* afresh; and chunked = true implies httpio != NULL.
C20_PostChunkedProtocol ==
    [][/\ chunked' => httpio'
       /\ (last'.op = "postchunked" /\ ~chunked) =>
             /\ chunked' /\ httpio'
             /\ Count(calls', "post") = Count(calls, "post") + 1
             /\ calls'[Len(calls')] = "post"
             /\ Count(calls', "sendchunked") = Count(calls, "sendchunked")
       /\ (last'.op = "postchunked" /\ chunked /\ httpio) =>
             /\ calls' = Append(calls, "sendchunked")
             /\ chunked' /\ httpio'
       /\ last'.op = "disconnect" => ~chunked']_vars

\* C20 witness: postchunked posted, continued with sendchunked, the request
\* was disconnected, and the next postchunked posted afresh.
C20_Witness ==
    /\ last.op = "postchunked" /\ ~last.flag
    /\ calls = <<"post", "sendchunked", "cancel", "post">>
    /\ chunked /\ httpio

\* C13 (as stated): after prepare the buffer accepts appended bytes up to
\* the chunk size rounded up to the block size.
C13_AcceptsUpToRoundedSize ==
    [][(last'.op = "put" /\ ~buf.null /\ phase = "receiving") =>
        bufpos' = Min(bufpos + last'.n, RoundUpToBlock(buflen))]_vars

\* C13 (amended): prepare(pos, npos) leaves a fixed buffer whose array is
\* npos - pos rounded up to the block size long and whose clamp limit
\* buflen is npos - pos itself, so a posted chunk accepts bytes up to
\* npos - pos; the array is allocated anew when there was none or buflen
\* differs from npos - pos, and is kept with its bytes otherwise.
C13_PrepareCapacity ==
    [][/\ last'.op = "prepare" =>
             /\ ~buf'.null
             /\ buflen' = last'.n
             /\ Len(buf'.mem) = RoundUpToBlock(last'.n)
             /\ (~buf.null /\ buflen = last'.n) => buf' = buf
             /\ (buf.null \/ buflen # last'.n) =>
                    buf'.mem = NewBytes(RoundUpToBlock(last'.n))
       /\ (last'.op = "put" /\ ~buf.null /\ phase = "receiving") =>
             bufpos' = Min(bufpos + last'.n, buflen)]_vars

\* C13 witness: a chunk of the same size as the previous one was prepared
\* and the buffer, still holding received bytes, was reused.
C13_Witness ==
    /\ last.op = "prepare" /\ ~last.flag
    /\ ~buf.null /\ buflen = last.n
    /\ \E i \in 1..Len(buf.mem) : buf.mem[i] # Uninit

\* C17: for every clock value t0, 0 included, a down report at t0 that
\* starts an outage followed by an up report at t0 + 590 does not set
\* inetback, and followed by an up report at t0 + 610 sets it.
C17_OutageThreshold ==
    [][(last'.op = "inetstatus" /\ last'.flag /\ ~since.never) =>
        /\ ds - since.t = 590 => inetback' = inetback
        /\ ds - since.t = 610 => inetback']_vars

\* C18: inetisback() returns true only if an up report has ended an outage
\* longer than the threshold since it last returned true; it leaves
\* inetback clear, and a call that directly follows another returns false.
C18_EdgeTriggered ==
    [][last'.op = "inetisback" =>
        /\ last'.flag => edge
        /\ ~inetback'
        /\ last.op = "inetisback" => ~last'.flag]_vars

\* C18 witness: after an outage longer than the threshold had ended,
\* inetisback returned true and cleared the flag.
C18_Witness ==
    /\ last.op = "inetisback" /\ last.flag
    /\ ~inetback /\ ~edge
    /\ reported = "up"

\* C19: noinetds is 0 ("never") whenever the status last reported was up,
\* and during an outage it is the clock value of the first down report of
\* that outage, however many down reports followed.
C19_DownSinceFirstReport ==
    /\ reported = "up" => noinetds = 0
    /\ reported = "down" => (~since.never /\ noinetds = since.t)

\* the ledger m agrees with the ledger n on every key but k
SameButAt(m, n, k) ==
    /\ DOMAIN m = DOMAIN n \cup {k}
    /\ \A x \in DOMAIN n \ {k} : m[x] = n[x]

\* C12: finalize calls the transform exactly once, in decrypt direction,
\* over bufpos = transferred() bytes at offset dlpos, the pos of the most
\* recent prepare, with the ctriv given; the buffer holds the result, the
\* tag the transform computes over those bytes is stored in macs[dlpos] and
\* every other ledger entry is as before.
C12_FinalizeTransformsReceived ==
    [][/\ last'.op = "prepare" => dlpos' = last'.off
       /\ last'.op # "prepare" => dlpos' = dlpos
       /\ (last'.op = "finalize" /\ ~fault') =>
             LET r == CtrCrypt(buf.mem, transferred, dlpos, last'.n, ZeroMac,
                               FALSE)
             IN /\ transferred = bufpos
                /\ crypts' = Append(crypts, CryptCall(transferred, dlpos,
                                                      last'.n, FALSE, r.mac))
                /\ buf'.mem = r.data
                /\ macs'[dlpos] = r.mac
                /\ SameButAt(macs', macs, dlpos)]_vars

\* C12 witness: the chunk 0..16 was prepared, 16 zero bytes arrived and
\* finalize ran with seed 7; the ledger holds at key 0 the tag of those
\* bytes.
C12_Witness ==
    /\ last.op = "finalize" /\ last.n = 7 /\ last.data = Zeros(BLOCKSIZE)
    /\ dlpos = 0 /\ bufpos = BLOCKSIZE /\ buflen = BLOCKSIZE
    /\ macs[0] = CtrCrypt(Zeros(BLOCKSIZE), BLOCKSIZE, 0, 7, ZeroMac, FALSE).mac
    /\ ~fault

\* C14: HttpReqUL::prepare(.., ctriv, pos, npos) calls the transform once,
\* in encrypt direction, over npos - pos bytes at offset pos with ctriv;
\* afterwards *out is the npos - pos transformed bytes without padding,
\* macs[pos] holds the tag and every other ledger entry is as before.
C14_UploadPrepareEncrypts ==
    [][last'.op = "ulprepare" =>
         LET n == last'.n
             pos == last'.off
             r == CtrCrypt(out, n, pos, ul'.ctriv, ZeroMac, TRUE)
         IN /\ Len(out') = n
            /\ out' = SubSeq(r.data, 1, n)
            /\ \A i \in 1..n :
                  out'[i] = EncByte(ul.plain[i], KeyStream(ul'.ctriv, pos + i - 1))
            /\ crypts' = Append(crypts, CryptCall(n, pos, ul'.ctriv, TRUE, r.mac))
            /\ macs'[pos] = r.mac
            /\ SameButAt(macs', macs, pos)]_vars

\* C14 witness: an upload chunk shorter than a cipher block was prepared
\* after a download chunk had put its tag under another ledger key.
C14_Witness ==
    /\ last.op = "ulprepare" /\ ul.prepared
    /\ Len(out) = Len(ul.plain) /\ Len(out) < BLOCKSIZE
    /\ \E k \in DOMAIN macs : k # ul.pos

\* C15: when the bytes an upload prepare produced for a range are received
\* by a download request prepared for the same range and finalized with the
\* same ctriv, the download buffer holds the plaintext that was staged and
\* the ledger entry of the range holds the tag the upload recorded.
C15_RoundTrip ==
    (/\ last.op = "finalize" /\ ~fault
     /\ ul.prepared
     /\ last.data = out /\ last.off = ul.pos /\ last.n = ul.ctriv)
    => /\ SubSeq(buf.mem, 1, bufpos) = ul.plain
       /\ macs[ul.pos] = ul.tag
       /\ \A i \in 1..Len(crypts) : crypts[i].tag = ul.tag

\* C15 witness: a chunk of more than one byte that starts past offset 0 has
\* made the round trip.
C15_Witness ==
    /\ last.op = "finalize" /\ ~fault
    /\ ul.prepared /\ Len(out) > 1 /\ ul.pos > 0
    /\ last.data = out /\ last.off = ul.pos /\ last.n = ul.ctriv
    /\ bufpos = buflen
    /\ SubSeq(buf.mem, 1, bufpos) = ul.plain

\* the ranges of the download chunk and of the upload chunk do not overlap
Disjoint ==
    \/ dlpos + buflen <= ul.pos
    \/ ul.pos + Len(ul.plain) <= dlpos

\* the tag the download chunk's finalize produced
DLTag == crypts[CHOOSE i \in 1..Len(crypts) : ~crypts[i].encrypt].tag

\* C16: a download chunk and an upload chunk with disjoint ranges run in
\* any interleaving: each writes only the ledger key equal to its own range
\* start, the two keys differ, and once both have written the ledger is the
\* same whichever wrote first.
C16_DisjointLedgerWrites ==
    [][/\ (last'.op = "finalize" /\ ~fault') => SameButAt(macs', macs, dlpos)
       /\ last'.op = "ulprepare" => SameButAt(macs', macs, ul'.pos)
       /\ last'.op \notin {"finalize", "ulprepare"} => macs' = macs
       /\ (Finalized' /\ ul'.prepared /\ Disjoint') =>
             /\ dlpos' # ul'.pos
             /\ DOMAIN macs' = {dlpos', ul'.pos}
             /\ macs'[dlpos'] = DLTag'
             /\ macs'[ul'.pos] = ul'.tag]_vars

\* C16 witness: the download chunk wrote its tag first and the upload
\* chunk, whose range does not overlap, wrote second.
C16_Witness ==
    /\ Len(crypts) = 2 /\ ~crypts[1].encrypt /\ crypts[2].encrypt
    /\ ul.prepared /\ Disjoint
    /\ DOMAIN macs = {dlpos, ul.pos}
    /\ macs[dlpos] = DLTag /\ macs[ul.pos] = ul.tag

====
